---- MODULE Spec2Model ----
(***************************************************************************)
(* Model of the resumable batch processor of teach-reach-data              *)
(* (src/transform.py) with the table stages it drives: the base            *)
(* transformations, the inference boundary (enrich_teacher_profile), the   *)
(* completeness scorer (t_50) and the CSV files it reads and writes.       *)
(*                                                                         *)
(* A cell of a table is a string.  Numbers and booleans are the text that  *)
(* str() and to_csv give them; NaN is pandas' null.  A DataFrame is        *)
(* [cols, rows], every row as long as cols.  A CSV file is [header,        *)
(* lines]; its lines may be shorter or longer than its header, because     *)
(* rows are appended without a header.                                     *)
(***************************************************************************)
EXTENDS Integers, Sequences, FiniteSets, TLC

VARIABLES
    input_df,       \* the source table (the rows of the input CSV)
    output_file,    \* the Output Table file: NoFile or [header, lines]
    error_log,      \* the rows of error_log.csv
    pc,             \* position of the running process_file
    response,       \* the collaborator's answer to the last call
    df,             \* process_file's df
    batch_size,     \* argument of the current run
    cont,           \* argument continue_from_existing of the current run
    total_teachers, \* process_file's total_teachers
    start_idx,      \* process_file's start_idx
    teacher_idx,    \* loop variable of process_teachers_individually
    runs,           \* number of runs of process_file started so far
    h,              \* history of the current run (observations only)
    probe           \* one call of a pure function: its input and result

vars == <<input_df, output_file, error_log, pc, response, df, batch_size,
          cont, total_teachers, start_idx, teacher_idx, runs, h, probe>>

----------------------------------------------------------------------------
(* Bounds *)

MaxN == 2       \* records of the source table
MaxRuns == 2    \* most runs of process_file in one behaviour

----------------------------------------------------------------------------
(* Cells, rows, Python dicts *)

NaN == "<NaN>"      \* numpy.nan / None: pd.isna is true of it
ListVal == "<list>" \* a JSON array of two or more items

\* The element of a one-element set.  The({e : x \in {v}}) is e with x
\* bound to the value of v, which is computed once (a Python assignment;
\* LET binds an expression)
The(S) == CHOOSE r \in S : TRUE

Range(seq) == The({{s[i] : i \in 1..Len(s)} : s \in {seq}})

IndexOf(seq, x) == The({CHOOSE i \in 1..Len(s) : s[i] = x : s \in {seq}})

\* dict.get(key, default) on a dict kept as a sequence of <<key, value>>
DictGet(dict, key, default) ==
    The({ IF \E i \in 1..Len(d) : d[i][1] = k
          THEN d[CHOOSE i \in 1..Len(d) : d[i][1] = k][2]
          ELSE default
          : d \in {dict}, k \in {key} })

\* d[key] = value: an existing key keeps its place, a new key goes last
DictSet(dict, key, value) ==
    The({ IF \E i \in 1..Len(d) : d[i][1] = k
          THEN [i \in 1..Len(d) |-> IF d[i][1] = k THEN <<k, v>> ELSE d[i]]
          ELSE Append(d, <<k, v>>)
          : d \in {dict}, k \in {key}, v \in {value} })

\* row.get(field, default) of a row of a frame with columns cols
RowGet(cols, row, field, default) ==
    IF field \in Range(cols) THEN row[IndexOf(cols, field)] ELSE default

\* str(v)
Str(v) == IF v = NaN THEN "nan" ELSE v

\* s.strip(): the one whitespace-only cell of the model is " "
Strip(s) == IF s = " " THEN "" ELSE s

\* s.lower(), on the cells the model uses that have upper-case letters and
\* are compared with a lower-case list
Lower(s) ==
    CASE s = "Not specified" -> "not specified"
      [] s = "Unknown" -> "unknown"
      [] s = "N/A" -> "n/a"
      [] s = "None" -> "none"
      [] s = "Education" -> "education"
      [] s = "General" -> "general"
      [] OTHER -> s

Numbers == -1..60

IsNumeric(s) == \E n \in Numbers : ToString(n) = s

NumberOf(s) == CHOOSE n \in Numbers : ToString(n) = s

----------------------------------------------------------------------------
(* DataFrames *)

\* df[col] = value: every row gets the value; a new column goes last
SetColumn(df0, col, value) ==
    The({ IF col \in Range(frame.cols)
          THEN [frame EXCEPT !.rows =
                  [r \in 1..Len(frame.rows) |->
                      [frame.rows[r] EXCEPT ![IndexOf(frame.cols, col)] = value]]]
          ELSE [cols |-> Append(frame.cols, col),
                rows |-> [r \in 1..Len(frame.rows) |->
                              Append(frame.rows[r], value)]]
          : frame \in {df0} })

\* df.head(n)
HeadRows(frame, n) ==
    [frame EXCEPT !.rows = SubSeq(frame.rows, 1,
                                  IF n < Len(frame.rows) THEN n ELSE Len(frame.rows))]

\* df.iloc[[i]].copy(), i counted from 0
Slice(frame, i) == [frame EXCEPT !.rows = <<frame.rows[i + 1]>>]

----------------------------------------------------------------------------
(* t_50_calculate_profile_completion.transform *)

required_fields ==
    << "name", "headline", "linkedin_profile_url", "Email", "subject", "bio",
       "nationality", "preferred_grade_level", "curriculum_experience",
       "teaching_experience_years", "current_school", "school_website",
       "current_location_country", "current_location_city" >>

GradeLevels ==
    { "Early Childhood (Ages 0-5)", "Elementary (Ages 6-10, Grades 1-5)",
      "Middle School (Ages 11-13, Grades 6-8)",
      "High School (Ages 14-18, Grades 9-12)", "University/College",
      "Adult Education" }

MinYears == 0
MaxYears == 50
FullScore == 50
FieldCost == 5

MissingTokens == {"not specified", "unknown", "n/a", "none"}

\* lines 92-110: the field-specific code of a field that is not missing;
\* float("nan") parses and compares false with both limits
ValidationCodes(field, value) ==
    CASE field = "subject"
           /\ Lower(value) \in {"education", "general", "not specified",
                                "unknown", ""} ->
            << <<field, "not_specific">> >>
      [] field = "nationality" /\ Lower(value) \in {"not specified", "unknown", ""} ->
            << <<field, "not_specific">> >>
      [] field = "preferred_grade_level" /\ value \notin GradeLevels ->
            << <<field, "invalid">> >>
      [] field = "teaching_experience_years" /\ IsNumeric(value)
            /\ (NumberOf(value) < MinYears \/ NumberOf(value) > MaxYears) ->
            << <<field, "out_of_range">> >>
      [] field = "teaching_experience_years" /\ ~IsNumeric(value)
            /\ value # "nan" ->
            << <<field, "invalid">> >>
      [] OTHER -> << >>

\* line 83: value = str(row.get(field, '')).strip()
FieldValue(cell) == The({ Strip(Str(c)) : c \in {cell} })

\* lines 83-110: the codes one field adds, as <<field, kind>>
FieldCodes(field, cell) ==
    The({ IF (value = "" \/ Lower(value) \in MissingTokens) THEN << <<field, "missing">> >>
          ELSE ValidationCodes(field, value)
          : value \in {FieldValue(cell)} })

MentionsField_Loose(codes, field) == codes # << >>

\* line 113: f"{field}_" in ' '.join(missing_fields).  No required field
\* name followed by "_" occurs inside the code of another field, so the
\* substring test finds the field exactly when a code of its own is there.
MentionsField(codes, field) == \E i \in 1..Len(codes) : codes[i][1] = field

\* lines 83-114 for one field, from <<completion, codes>> so far
ScoreField(so_far, field, cell) ==
    The({ LET codes == prev[2] \o own
              field_missing == own # << >> /\ own[1][2] = "missing"
              cost == IF field_missing \/ MentionsField(codes, field)
                      THEN FieldCost ELSE 0
          IN << IF prev[1] - cost > 0 THEN prev[1] - cost ELSE 0, codes >>
          : prev \in {so_far}, own \in {FieldCodes(field, cell)} })

\* lines 78-114 for the first k required fields: <<completion, codes>>
RECURSIVE ScoreUpTo(_, _, _)
ScoreUpTo(cols, row, k) ==
    IF k = 0 THEN <<FullScore, << >> >>
    ELSE ScoreField(ScoreUpTo(cols, row, k - 1), required_fields[k],
                    RowGet(cols, row, required_fields[k], ""))

\* line 117: max(0, min(50, completion))
Clamp(n) == IF n < 0 THEN 0 ELSE IF n > FullScore THEN FullScore ELSE n

\* line 120: json.dumps(missing_fields) if missing_fields else ''
MissingFieldsOf(codes) ==
    IF codes = << >> THEN ""
    ELSE ToString([i \in 1..Len(codes) |-> codes[i][1] \o "_" \o codes[i][2]])

ScoredRow_Stored(cols, row, pcp, mf) ==
    The({ [row EXCEPT ![pcp] = ToString(Clamp(NumberOf(row[pcp]) + scored[1]
                                              - FullScore)),
                      ![mf] = MissingFieldsOf(scored[2])]
          : scored \in {ScoreUpTo(cols, row, Len(required_fields))} })

\* lines 76-120 for one row: the row with its two cells written, pcp and
\* mf being the places of the two columns
ScoredRow(cols, row, pcp, mf) ==
    The({ [row EXCEPT ![pcp] = ToString(Clamp(scored[1])),
                      ![mf] = MissingFieldsOf(scored[2])]
          : scored \in {ScoreUpTo(cols, row, Len(required_fields))} })

\* lines 66-71: the two columns of the scorer
ScoreColumns(df0) ==
    The({ SetColumn(IF "profile_completion_percentage" \in Range(frame.cols)
                    THEN frame
                    ELSE SetColumn(frame, "profile_completion_percentage", "0"),
                    "missing_fields", "")
          : frame \in {df0} })

\* t50.transform(df, input_df)
CompletionTransform(frame) ==
    The({ [b EXCEPT !.rows =
              [r \in 1..Len(b.rows) |->
                 ScoredRow(b.cols, b.rows[r],
                           IndexOf(b.cols, "profile_completion_percentage"),
                           IndexOf(b.cols, "missing_fields"))]]
          : b \in {ScoreColumns(frame)} })

----------------------------------------------------------------------------
(* The source table and the base transformations *)

\* Source record i (from 1): every second headline and every third email
\* is absent from the input file
SourceRow(i) ==
    [id |-> ToString(i),
     first_name |-> "F" \o ToString(i),
     last_name |-> "L" \o ToString(i),
     headline |-> IF i % 2 = 1 THEN "Teacher" ELSE NaN,
     linkedin_url |-> "https://li/" \o ToString(i),
     email |-> IF i % 3 = 0 THEN NaN ELSE "t" \o ToString(i) \o "@x.org"]

\* series.fillna('')
FillNa(v) == IF v = NaN THEN "" ELSE v

\* df[col] = series, row by row; a new column goes last
SetColumnFrom(frame, col, values) ==
    IF col \in Range(frame.cols)
    THEN [frame EXCEPT !.rows =
            [r \in 1..Len(frame.rows) |->
                [frame.rows[r] EXCEPT ![IndexOf(frame.cols, col)] = values[r]]]]
    ELSE [cols |-> Append(frame.cols, col),
          rows |-> [r \in 1..Len(frame.rows) |-> Append(frame.rows[r], values[r])]]

\* t_01_add_teacher_id.transform
AddTeacherId(frame, input) ==
    [cols |-> <<"teacher_id">>, rows |-> [r \in 1..Len(input.rows) |-> <<"">>]]

\* (first.fillna('') + ' ' + last.fillna('')).str.strip()
FullName(first, last) ==
    LET f == FillNa(first)
        l == FillNa(last)
    IN IF f = "" THEN l ELSE IF l = "" THEN f ELSE f \o " " \o l

\* add_name_column.transform: input_df['first_name'] and
\* input_df['last_name'] raise KeyError when the column is absent
NameRaises(input) == ~({"first_name", "last_name"} \subseteq input.cols)

\* add_name_column.transform
AddNameColumn(frame, input) ==
    SetColumnFrom(frame, "name",
        [r \in 1..Len(input.rows) |->
            FullName(input.rows[r].first_name, input.rows[r].last_name)])

\* add_headline_column.transform
AddHeadlineColumn(frame, input) ==
    IF "headline" \in input.cols
    THEN SetColumnFrom(frame, "headline",
            [r \in 1..Len(input.rows) |-> FillNa(input.rows[r].headline)])
    ELSE SetColumn(frame, "headline", "")

columns_to_add ==
    << "profile_completion_percentage", "profile_visibility",
       "preferred_teaching_modes", "willing_to_relocate", "hourly_rate",
       "monthly_salary_expectation", "available_start_date", "cv_resume_url",
       "video_intro_url" >>

\* add_empty_columns.transform
AddEmptyColumns(frame, input) ==
    LET IsMissing(col) == col \notin Range(frame.cols)
        added == SelectSeq(columns_to_add, IsMissing)
    IN [cols |-> frame.cols \o added,
        rows |-> [r \in 1..Len(frame.rows) |->
                    frame.rows[r] \o [i \in 1..Len(added) |-> ""]]]

\* t_10_add_linkedin_url.transform
AddLinkedinUrl(frame, input) ==
    IF "linkedin_url" \in input.cols
    THEN SetColumnFrom(frame, "linkedin_profile_url",
            [r \in 1..Len(input.rows) |->
                Strip(FillNa(input.rows[r].linkedin_url))])
    ELSE SetColumn(frame, "linkedin_profile_url", "")

\* t_12_add_created_at.transform: now is the clock reading of the run
AddCreatedAt(frame, input, now) == SetColumn(frame, "created_at", now)

\* t_16_add_email_column.transform: an absent email stays null
AddEmailColumn(frame, input) ==
    IF "email" \in input.cols
    THEN SetColumnFrom(frame, "Email",
            [r \in 1..Len(input.rows) |-> input.rows[r].email])
    ELSE SetColumn(frame, "Email", NaN)

\* t_17_add_source_id.transform
AddSourceId(frame, input) ==
    IF "id" \in input.cols
    THEN SetColumnFrom(frame, "source_id",
            [r \in 1..Len(input.rows) |-> Str(input.rows[r].id)])
    ELSE SetColumn(frame, "source_id", NaN)

EmptyFrame == [cols |-> << >>, rows |-> << >>]

\* process_file lines 61-68: the stages of load_base_transformations, in
\* their order, from an empty frame
BaseTransformations(input, now) ==
    CompletionTransform(
     AddSourceId(
      AddEmailColumn(
       AddCreatedAt(
        AddLinkedinUrl(
         AddEmptyColumns(
          AddHeadlineColumn(
           AddNameColumn(
            AddTeacherId(EmptyFrame, input), input), input), input), input),
        input, now), input), input))

----------------------------------------------------------------------------
(* CSV files: DataFrame.to_csv and pd.read_csv *)

NoFile == [exists |-> FALSE, header |-> << >>, lines |-> << >>]

CsvLines(frame) ==
    [r \in 1..Len(frame.rows) |->
        [c \in 1..Len(frame.rows[r]) |-> (IF frame.rows[r][c] = NaN THEN "" ELSE frame.rows[r][c])]]

\* frame.to_csv(path, mode='w', header=True, index=False)
WriteCsv(frame) ==
    [exists |-> TRUE, header |-> frame.cols, lines |-> CsvLines(frame)]

\* os.path.getsize(path) == 0
FileEmpty(file) == file.exists /\ file.header = << >> /\ file.lines = << >>

\* read_csv raises EmptyDataError on an empty file and ParserError on a
\* line with more fields than the header
ReadRaises(file) ==
    \/ FileEmpty(file)
    \/ \E r \in 1..Len(file.lines) : Len(file.lines[r]) > Len(file.header)

\* pd.read_csv(path): a short line is padded with nulls.  Numbers keep the
\* model's one spelling whatever dtype the column gets.
ReadCsv(file) ==
    [cols |-> file.header,
     rows |-> [r \in 1..Len(file.lines) |->
                [c \in 1..Len(file.header) |->
                    IF c <= Len(file.lines[r])
                    THEN (IF file.lines[r][c] \in
                                {"", "#N/A", "N/A", "NA", "NULL", "NaN", "None",
                                 "n/a", "nan", "null", "<NA>"}
                          THEN NaN ELSE file.lines[r][c])
                    ELSE NaN]]]

----------------------------------------------------------------------------
(* The inference boundary: utils/openai_utils.py *)

structured_fields ==
    << "subject", "nationality", "preferred_grade_level",
       "is_currently_teacher", "curriculum_experience" >>

simple_fields ==
    << "bio", "teaching_experience_years", "current_school", "school_website",
       "current_location_country", "current_location_city" >>

\* One item of the JSON object: <<key, is a JSON object, value, confidence,
\* reasoning>>
Structured(key, value, confidence) == <<key, TRUE, value, confidence, "because">>
Simple(key, value) == <<key, FALSE, value, NaN, NaN>>

\* The collaborator knows little of a record without a headline: its
\* answer has a null nationality, no school and the empty website the
\* prompt allows
Sparse(teacher_data) ==
    RowGet(teacher_data.cols, teacher_data.rows[1], "headline", "") = ""

\* json.loads(response.choices[0].message.content): the example of the
\* prompt, the sparse answer, an answer whose bio is an array, or an answer
\* whose nationality is no text
RawResult(teacher_data, kind) ==
    << Structured("subject", "Mathematics", "High"),
       Simple("bio", IF kind = "malformed" THEN ListVal
                     ELSE "A dedicated educator"),
       Structured("nationality",
                  IF kind = "unvalidatable" THEN ListVal
                  ELSE IF Sparse(teacher_data) THEN NaN ELSE "British",
                  "Medium"),
       Structured("preferred_grade_level",
                  "High School (Ages 14-18, Grades 9-12)", "High"),
       Structured("is_currently_teacher", "True", "High"),
       Structured("curriculum_experience", "British", "High"),
       Simple("teaching_experience_years", "10"),
       Simple("current_school",
              IF Sparse(teacher_data) THEN "" ELSE "Global Academy"),
       Simple("school_website",
              IF Sparse(teacher_data) THEN "" ELSE "globalacademy.sch"),
       Simple("current_location_country", "United Arab Emirates"),
       Simple("current_location_city", "Dubai") >>

\* enrich_teacher_profile lines 206-214: one item of the answer
FlattenItem(flattened, item) ==
    IF item[1] \in Range(structured_fields) /\ item[2]
    THEN DictSet(DictSet(DictSet(flattened,
            item[1] \o "_value", item[3]),
            item[1] \o "_confidence", item[4]),
            item[1] \o "_reasoning", item[5])
    ELSE DictSet(flattened, item[1], item[3])

\* enrich_teacher_profile lines 205-214, for the first k items
RECURSIVE Flatten(_, _)
Flatten(raw, k) ==
    IF k = 0 THEN << >> ELSE FlattenItem(Flatten(raw, k - 1), raw[k])

\* enrich_teacher_profile lines 202-214: flattened_result
FlattenAll(raw_result) == The({ Flatten(raw, Len(raw)) : raw \in {raw_result} })

\* if result.get(key) is None: result[key] = default
SetDefault(result, key, default) ==
    The({ IF DictGet(d, key, NaN) = NaN THEN DictSet(d, key, default) ELSE d
          : d \in {result} })

\* validate_teacher_profile lines 258-273, for the first k base fields
RECURSIVE StructuredDefaults(_, _)
StructuredDefaults(result, k) ==
    IF k = 0 THEN result
    ELSE SetDefault(
          SetDefault(
           SetDefault(StructuredDefaults(result, k - 1),
              structured_fields[k] \o "_value",
              IF structured_fields[k] = "is_currently_teacher" THEN "False"
              ELSE "Not specified"),
           structured_fields[k] \o "_confidence", "Low"),
          structured_fields[k] \o "_reasoning", "Not specified by API")

\* validate_teacher_profile lines 276-281, for the first k simple fields
RECURSIVE SimpleDefaults(_, _)
SimpleDefaults(result, k) ==
    IF k = 0 THEN result
    ELSE SetDefault(SimpleDefaults(result, k - 1), simple_fields[k],
            IF simple_fields[k] = "teaching_experience_years" THEN "0" ELSE "")

\* lines 284-287: float(x), 0.0 when x does not parse
ToFloat(v) == IF IsNumeric(v) THEN v ELSE "0"

\* lines 291-294: a str becomes a bool; "True" and "False" are the bools
ToBool(v) ==
    IF v \in {"True", "False"} THEN v
    ELSE IF Lower(v) \in {"true", "yes", "1"} THEN "True" ELSE "False"

\* lines 300 and 305: .strip() and .startswith() of a value that is no str
ValidateRaises(result) ==
    \/ DictGet(result, "nationality_value", "") = ListVal
    \/ DictGet(result, "school_website", "") = ListVal

\* lines 284-287
ConvertYears(result) ==
    The({ DictSet(d, "teaching_experience_years",
                  ToFloat(DictGet(d, "teaching_experience_years", "0")))
          : d \in {result} })

\* lines 290-294
ConvertTeacher(result) ==
    The({ DictSet(d, "is_currently_teacher_value",
                  ToBool(DictGet(d, "is_currently_teacher_value", NaN)))
          : d \in {result} })

\* lines 304-306
SchemeAdded(d, site) ==
    IF site # "" /\ ~(site \in {"https://globalacademy.sch", "http://globalacademy.sch"})
    THEN DictSet(d, "school_website", "https://" \o site)
    ELSE d

\* lines 304-306: read the website once, then fix it
AddScheme(result) ==
    The({ The({ SchemeAdded(d, site)
                : site \in {DictGet(d, "school_website", "")} })
          : d \in {result} })

\* validate_teacher_profile
validate_teacher_profile(flattened) ==
    AddScheme(
     ConvertTeacher(
      ConvertYears(
       SimpleDefaults(StructuredDefaults(flattened, Len(structured_fields)),
                      Len(simple_fields)))))

\* enrich_teacher_profile lines 228-240
DefaultProfile ==
    << <<"subject", "Unknown">>,
       <<"bio", "Professional educator with teaching experience.">>,
       <<"nationality", "Unknown">>,
       <<"preferred_grade_level", "Not specified">>,
       <<"is_currently_teacher", "False">>,
       <<"curriculum_experience", "Not specified">>,
       <<"teaching_experience_years", "0">>,
       <<"current_school", "">>,
       <<"school_website", "">>,
       <<"current_location_country", "">>,
       <<"current_location_city", "">> >>

\* enrich_teacher_profile with an except clause that covers the call only
enrich_teacher_profile_Open(teacher_data, kind) ==
    IF kind = "throws" THEN DefaultProfile
    ELSE validate_teacher_profile(FlattenAll(RawResult(teacher_data, kind)))

\* enrich_teacher_profile lines 186-240: the except clause covers the call
\* (throws), the parsing of its response (unparsable) and the validation
enrich_teacher_profile(teacher_data, kind) ==
    IF kind \in {"throws", "unparsable"} THEN DefaultProfile
    ELSE The({ IF ValidateRaises(flattened) THEN DefaultProfile
               ELSE validate_teacher_profile(flattened)
               : flattened \in {FlattenAll(RawResult(teacher_data, kind))} })

----------------------------------------------------------------------------
(* transform.py: process_teachers_individually, one record *)

\* line 143: the items of the answer that are written
Given(item) == item[2] # NaN /\ Strip(Str(item[2])) # ""

\* lines 142-144: slice.at[0, key] = value for every given item, in the
\* order of the dict; a key that is no column yet becomes the last column
MergedColumns(slice, given) ==
    The({ LET IsNew(item) == item[1] \notin known
              fresh == SelectSeq(given, IsNew)
          IN slice.cols \o [i \in 1..Len(fresh) |-> fresh[i][1]]
          : known \in {Range(slice.cols)} })

\* lines 142-144: the slice after the writes
MergedSlice(slice, given, cols) ==
    [cols |-> cols,
     rows |-> << [c \in 1..Len(cols) |->
                    IF \E i \in 1..Len(given) : given[i][1] = cols[c]
                    THEN DictGet(given, cols[c], NaN)
                    ELSE slice.rows[1][c]] >>]

Merge(slice, enriched) ==
    The({ The({ MergedSlice(slice, given, cols)
                : cols \in {MergedColumns(slice, given)} })
          : given \in {SelectSeq(enriched, Given)} })

\* line 128
TeacherName(slice, idx) ==
    IF "name" \in Range(slice.cols) THEN slice.rows[1][IndexOf(slice.cols, "name")]
    ELSE "Teacher #" \o ToString(idx + 1)

\* line 162
SaveTeacher(file, slice, idx, start) ==
    IF (~file.exists \/ FileEmpty(file) \/ idx = start) THEN WriteCsv(slice)
    ELSE ([file EXCEPT !.lines = @ \o CsvLines(slice)])

\* lines 173-175
ErrorRow(slice, idx, error) ==
    [teacher_id |-> IF "teacher_id" \in Range(slice.cols)
                    THEN slice.rows[1][IndexOf(slice.cols, "teacher_id")]
                    ELSE "UNKNOWN",
     name |-> TeacherName(slice, idx),
     error |-> error]

\* line 111: total_teachers of process_teachers_individually
LoopTotal(frame) == Len(frame.rows)

----------------------------------------------------------------------------
(* transform.py: apply_final_transformations *)

required_columns ==
    << "teacher_id", "name", "subject", "headline", "bio",
       "curriculum_experience", "teaching_experience_years",
       "current_location_country", "current_location_city", "nationality",
       "preferred_grade_level", "current_school", "school_website",
       "linkedin_url", "email", "source_id", "created_at",
       "is_currently_teacher", "profile_completion_percentage" >>

\* lines 209-212: df[col] = '' for every required column that is missing,
\* in the order of the list
AddRequired(df0) ==
    The({ LET IsMissing(col) == col \notin known
              added == SelectSeq(required_columns, IsMissing)
              blanks == [i \in 1..Len(added) |-> ""]
          IN [cols |-> frame.cols \o added,
              rows |-> [r \in 1..Len(frame.rows) |-> frame.rows[r] \o blanks]]
          : frame \in {df0}, known \in {Range(df0.cols)} })

ColumnCells(df0, col) ==
    The({ {frame.rows[r][IndexOf(frame.cols, col)] : r \in 1..Len(frame.rows)}
          : frame \in {df0} })

\* line 215
NeedsCompletion(frame) ==
    \/ "profile_completion_percentage" \notin Range(frame.cols)
    \/ ColumnCells(frame, "profile_completion_percentage") \subseteq {NaN}

\* line 221: df[col] = df[col].fillna(0).astype(int)
ToIntColumn(frame, col) ==
    The({ [frame EXCEPT !.rows =
              [r \in 1..Len(frame.rows) |->
                  [frame.rows[r] EXCEPT
                     ![c] = IF frame.rows[r][c] = NaN THEN "0"
                            ELSE frame.rows[r][c]]]]
          : c \in {IndexOf(frame.cols, col)} })

\* line 221 raises ValueError on a cell that is no number
FinalRaises(frame) ==
    \E v \in ColumnCells(AddRequired(frame),
                         "profile_completion_percentage") :
        v # NaN /\ ~IsNumeric(v)

\* line 258: fillna(False).astype(bool).  A column of True, False and nulls
\* holds bools; in any other column a non-empty str is true
BoolCell(cells, v) ==
    IF cells \subseteq {NaN, "True", "False"}
    THEN (IF v = NaN THEN "False" ELSE v)
    ELSE (IF v \in {NaN, ""} THEN "False" ELSE "True")

ToBoolColumn(frame, col) ==
    The({ [frame EXCEPT !.rows =
              [r \in 1..Len(frame.rows) |->
                  [frame.rows[r] EXCEPT
                      ![c] = BoolCell(cells, frame.rows[r][c])]]]
          : cells \in {ColumnCells(frame, col)},
            c \in {IndexOf(frame.cols, col)} })

\* lines 215-217
EnsureScored(df0) ==
    The({ IF NeedsCompletion(a) THEN CompletionTransform(a) ELSE a
          : a \in {df0} })

\* lines 220-221
IntScore(df0) ==
    The({ IF "profile_completion_percentage" \in Range(b.cols)
          THEN ToIntColumn(b, "profile_completion_percentage") ELSE b
          : b \in {df0} })

\* lines 257-258
BoolTeacher(df0) ==
    The({ IF "is_currently_teacher" \in Range(d.cols)
          THEN ToBoolColumn(d, "is_currently_teacher") ELSE d
          : d \in {df0} })

\* apply_final_transformations lines 200-258, the frame that line 262
\* saves.  No stage of the pipeline and no answer of the model yields a
\* current_location column, so the migration of lines 224-250 is skipped.
apply_final_transformations(frame) ==
    BoolTeacher(
     CompletionTransform(
      IntScore(
       EnsureScored(
        AddRequired(frame)))))

----------------------------------------------------------------------------
(* Employment history ranking: openai_utils.enrich_teacher_profile lines   *)
(* 104-112 and batch_openai_utils.batch_curriculum_and_school lines        *)
(* 333-340.  An entry is [current, start_date], current the bool of line   *)
(* 92 and start_date the stripped text of line 93.                         *)

MaxEntries == 3

EntryLists ==
    UNION {[1..n -> [current : BOOLEAN,
                     start_date : {"", "2015", "2020", "2022"}]]
           : n \in 0..MaxEntries}

\* The place of a date text in the order of str: "1900-01-01" < "2015" <
\* "2020" < "2022"
DateOrder(text) ==
    CASE text = "1900-01-01" -> 0
      [] text = "2015" -> 1
      [] text = "2020" -> 2
      [] text = "2022" -> 3

\* key=lambda x: (not x['current'],
\*                x['start_date'] if x['start_date'] else '1900-01-01')
SortKey(x) ==
    << IF ~x.current THEN 1 ELSE 0,
       DateOrder(IF x.start_date # "" THEN x.start_date ELSE "1900-01-01") >>

\* a < b on the key tuples
KeyLess(a, b) == a[1] < b[1] \/ (a[1] = b[1] /\ a[2] < b[2])

\* One more element of a list in descending key order; it goes behind the
\* elements whose key is not less than its own, which keeps list.sort
\* stable
SortInsert(sorted, x) ==
    LET ahead == Cardinality({i \in 1..Len(sorted) :
                                ~KeyLess(SortKey(sorted[i]), SortKey(x))})
    IN SubSeq(sorted, 1, ahead) \o <<x>> \o SubSeq(sorted, ahead + 1, Len(sorted))

\* list.sort(key=..., reverse=True) of the first k entries
RECURSIVE SortReverse(_, _)
SortReverse(entries, k) ==
    IF k = 0 THEN << >> ELSE SortInsert(SortReverse(entries, k - 1), entries[k])

\* openai_utils.py lines 104-112
RankEmployment(employment_history) ==
    IF employment_history # << >>
    THEN SortReverse(employment_history, Len(employment_history))
    ELSE employment_history

\* batch_openai_utils.py lines 333-340
BatchRankEmployment(employment_history) ==
    SortReverse(employment_history, Len(employment_history))

\* batch_curriculum_and_school lines 351-357, from the k-th of the fields
\* current_employer, company, organization; a field whose key is absent is
\* NaN.  Every field that is present and truthy is assigned, and only a
\* value that is no placeholder ends the loop.
RECURSIVE ScanEmployer(_, _, _)
ScanEmployer(fields, k, current_school) ==
    IF k > Len(fields) THEN current_school
    ELSE IF fields[k] \in {NaN, ""}
    THEN ScanEmployer(fields, k + 1, current_school)
    ELSE The({ IF value # "" /\ Lower(value) \notin
                                    {"none", "n/a", "not specified"}
               THEN value
               ELSE ScanEmployer(fields, k + 1, value)
               : value \in {Strip(Str(fields[k]))} })

\* lines 360-363: re.sub(r'^\s*(?:at|from|,|\bat\b)\s*', '', s, IGNORECASE)
\* and strip(), on the names the model uses
CleanEmployer(current_school) ==
    CASE current_school = "Atlas School" -> "las School"
      [] current_school = "at Beta School" -> "Beta School"
      [] OTHER -> current_school

\* batch_curriculum_and_school lines 342-363 when the ranking has no entry
FallbackSchool(fields) == CleanEmployer(ScanEmployer(fields, 1, ""))

----------------------------------------------------------------------------
(* The School/Curriculum Resolver: school_utils.get_curriculum_from_school *)
(* and school_curriculum_mapping.get_curriculum_for_school.  A school name *)
(* is the sequence of its words.  No word of the model is part of another  *)
(* word and no name has punctuation, so a str is inside another str        *)
(* exactly when its words are consecutive words of the other.              *)

MaxCatalog == 2

\* The answer when no rule matches (None)
NOT_FOUND == "<NOT_FOUND>"

\* word.lower()
LowerWord(w) ==
    CASE w = "XYZ" -> "xyz"
      [] w = "British" -> "british"
      [] w = "American" -> "american"
      [] w = "School" -> "school"
      [] w = "Academy" -> "academy"
      [] w = "GEMS" -> "gems"
      [] w = "Raffles" -> "raffles"
      [] w = "World" -> "world"
      [] OTHER -> w

\* name.lower().strip(): a name is a sequence of words, and the word " "
\* is white space that belongs to no word
LowerName(name) ==
    LET IsWord(w) == w # " "
    IN The({ [i \in 1..Len(words) |-> LowerWord(words[i])]
             : words \in {SelectSeq(name, IsWord)} })

\* a in b, of two str
IsInfix(a, b) ==
    \E k \in 0..(Len(b) - Len(a)) : SubSeq(b, k + 1, k + Len(a)) = a

\* w in name, of a word and a str
HasWord(name, w) == \E i \in 1..Len(name) : name[i] = w

\* name.replace(' ' + w, '').strip()
Without(name, w) ==
    LET Other(x) == x # w
    IN IF name = << >> THEN name
       ELSE <<name[1]>> \o SelectSeq(Tail(name), Other)

\* school_curriculum_mapping.py lines 19-27: the key and the curriculum of
\* one row of the catalog file
LoadedCurriculum(school_name, curriculum) ==
    IF HasWord(school_name, "gems") /\ ~HasWord(school_name, "british")
    THEN "British"
    ELSE IF HasWord(school_name, "sabis") THEN "IB" ELSE curriculum

\* lines 18-36: one row of the loop of load_school_curriculum_mapping
LoadRow(mapping, row) ==
    The({ LET named == DictSet(mapping, school_name, curriculum)
              no_school == IF HasWord(school_name, "school")
                           THEN DictSet(named, Without(school_name, "school"),
                                        curriculum)
                           ELSE named
          IN IF HasWord(school_name, "academy")
             THEN DictSet(no_school, Without(school_name, "academy"), curriculum)
             ELSE no_school
          : school_name \in {LowerName(row[1])},
            curriculum \in {LoadedCurriculum(LowerName(row[1]), row[2])} })

\* load_school_curriculum_mapping, for the first k rows of the file
RECURSIVE load_school_curriculum_mapping(_, _)
load_school_curriculum_mapping(rows, k) ==
    IF k = 0 THEN << >>
    ELSE LoadRow(load_school_curriculum_mapping(rows, k - 1), rows[k])

\* get_curriculum_for_school lines 71-80
SpecialCases(school_name) ==
    IF HasWord(school_name, "gems") THEN "British"
    ELSE IF HasWord(school_name, "sabis") THEN "IB"
    ELSE IF HasWord(school_name, "raffles") THEN "IB"
    ELSE IF IsInfix(<<"american", "school">>, school_name) THEN "American"
    ELSE IF IsInfix(<<"british", "school">>, school_name) THEN "British"
    ELSE NOT_FOUND

\* lines 67-69: the keys that are part of the name or that the name is
\* part of
PartialMatches(school_name, mapping) ==
    {i \in 1..Len(mapping) :
        IsInfix(mapping[i][1], school_name) \/ IsInfix(school_name, mapping[i][1])}

\* Least element of a set of places
First(places) == CHOOSE i \in places : \A j \in places : i <= j

\* school_curriculum_mapping.get_curriculum_for_school
get_curriculum_for_school(raw_name, mapping) ==
    IF raw_name = << >> THEN NOT_FOUND
    ELSE The({ IF \E i \in 1..Len(mapping) : mapping[i][1] = school_name
               THEN DictGet(mapping, school_name, NOT_FOUND)
               ELSE IF PartialMatches(school_name, mapping) # {}
               THEN mapping[First(PartialMatches(school_name, mapping))][2]
               ELSE SpecialCases(school_name)
               : school_name \in {LowerName(raw_name)} })

\* school_utils.load_dubai_schools: the dict of lines 20-24, for the first
\* k rows of the file
RECURSIVE load_dubai_schools(_, _)
load_dubai_schools(rows, k) ==
    IF k = 0 THEN << >>
    ELSE DictSet(load_dubai_schools(rows, k - 1), LowerName(rows[k][1]),
                 rows[k][2])

common_terms ==
    { "school", "academy", "college", "international", "private", "public",
      "high", "elementary", "primary", "secondary", "the", "and", "of", "for",
      "in", "at", "on", "a", "an", "to" }

\* school_utils.clean_school_name
clean_school_name(name) ==
    LET Kept(word) ==
            /\ word \notin common_terms
            /\ word \notin {"al", "of", "in", "at", "on", "a", "an", "to"}
    IN SelectSeq(LowerName(name), Kept)

\* len(set(a.split()).intersection(set(b.split()))) >= 2
TwoWordsShared(a, b) == Cardinality(Range(a) \cap Range(b)) >= 2

\* get_curriculum_from_school lines 62-84, for one entry of the catalog.
\* A cleaned name keeps words of three letters or more, so it is shorter
\* than 3 exactly when it is empty.
CloseMatch(clean_db_name, clean_text) ==
    /\ clean_db_name # << >> /\ clean_text # << >>
    /\ \/ clean_db_name = clean_text
       \/ IsInfix(clean_db_name, clean_text)
       \/ IsInfix(clean_text, clean_db_name)
       \/ TwoWordsShared(clean_db_name, clean_text)

\* lines 87-102, for one entry of the catalog
WordMatch(clean_db_name, clean_text) ==
    clean_db_name # << >> /\ TwoWordsShared(clean_db_name, clean_text)

\* school_utils.get_curriculum_from_school: the curriculum of the pair it
\* returns
get_curriculum_from_school(text, schools_data) ==
    IF text = << >> THEN NOT_FOUND
    ELSE The({ LET close == {i \in 1..Len(schools_data) :
                               CloseMatch(clean_school_name(schools_data[i][1]),
                                          clean_text)}
                   words == {i \in 1..Len(schools_data) :
                               WordMatch(clean_school_name(schools_data[i][1]),
                                         clean_text)}
               IN IF close # {} THEN schools_data[First(close)][2]
                  ELSE IF words # {} THEN schools_data[First(words)][2]
                  ELSE NOT_FOUND
               : clean_text \in {clean_school_name(text)} })

----------------------------------------------------------------------------
(* transform.py: process_file as a state machine *)

AlreadyComplete_Strict(k, total) == k > total

\* line 75
AlreadyComplete(k, total) == k >= total

ResumeFrame_Base(existing, base) == base

\* line 84
ResumeFrame(existing, base) == existing

AfterRecord_Escapes(idx, total, failed) ==
    IF failed THEN "dead" ELSE IF idx < total - 1 THEN "loop" ELSE "report"

\* lines 183-187 and the except clause of line 170: the loop goes on to the
\* next record after a saved and after a failed one alike
AfterRecord(idx, total, failed) == IF idx < total - 1 THEN "loop" ELSE "report"

\* calls: the records whose enrichment was attempted; resolved: the pairs
\* <<record, result>> of the resolver calls of the loop.  Lines 132-144 of
\* transform.py and enrich_teacher_profile hold no call of a resolver, so
\* no step of the run adds to resolved.  written: the columns of every row
\* the loop has saved, in the order of the saves.  events: the inference
\* calls and the pacing delays of the loop, in the order they happen.
NoHistory ==
    [mode |-> "none", existed |-> FALSE, k0 |-> 0, file0 |-> NoFile, log0 |-> 0,
     calls |-> {}, threw |-> {}, raised |-> {}, saved |-> {}, resolved |-> {},
     written |-> << >>, events |-> << >>,
     trace |-> << >>, after_done |-> FALSE, last_total |-> 0, persisted |-> {}]

\* lines 183-185 with the delay taken only after a saved record
Sleeps_AfterSuccess(idx, total, failed) == ~failed /\ idx < total - 1

\* lines 183-185: the delay follows the try statement, whatever its outcome
Sleeps(idx, total, failed) == idx < total - 1

\* lines 138 and 183-185: what one pass of the loop adds to the events
PassEvents(idx, total, failed) ==
    << <<"call", idx>> >>
        \o IF Sleeps(idx, total, failed) THEN << <<"sleep", idx>> >> ELSE << >>

\* The state before the first run of process_file
Idle ==
    /\ input_df = [cols |-> {"id", "first_name", "last_name", "headline",
                             "linkedin_url", "email"},
                   rows |-> [i \in 1..MaxN |-> SourceRow(i)]]
    /\ output_file = NoFile
    /\ error_log = << >>
    /\ pc = "idle"
    /\ response = "none"
    /\ df = EmptyFrame
    /\ batch_size = 0
    /\ cont = FALSE
    /\ total_teachers = 0
    /\ start_idx = 0
    /\ teacher_idx = 0
    /\ runs = 0
    /\ h = NoHistory

Init == Idle /\ probe = ([op |-> "none", input |-> << >>, out |-> << >>, done |-> FALSE])

\* process_file lines 49-68: read the input, limit it, apply the base
\* transformations
StartRun(bs, c) ==
    /\ pc \in {"idle", "done", "dead"}
    /\ runs < MaxRuns
    /\ LET total == (IF bs < (Len(input_df.rows)) THEN bs ELSE (Len(input_df.rows)))
           limited == [input_df EXCEPT !.rows = SubSeq(input_df.rows, 1, total)]
       IN /\ total_teachers' = total
          /\ df' = BaseTransformations(limited, "T" \o ToString(runs + 1))
          /\ h' = [NoHistory EXCEPT
                     !.persisted = h.persisted,
                     !.file0 = output_file,
                     !.existed = output_file.exists,
                     !.log0 = Len(error_log),
                     !.after_done = (pc = "done" /\ h.mode = "fresh"),
                     !.last_total = IF pc = "done" THEN total_teachers ELSE 0,
                     !.trace = <<"NOT_STARTED", "BASE_APPLIED">>]
    /\ batch_size' = bs
    /\ cont' = c
    /\ start_idx' = 0
    /\ teacher_idx' = 0
    /\ runs' = runs + 1
    /\ pc' = "check_existing"
    /\ response' = "none"
    /\ UNCHANGED <<probe, input_df, output_file, error_log>>

\* process_file lines 71-86
CheckExisting ==
    /\ pc = "check_existing"
    /\ IF output_file.exists /\ cont /\ ~ReadRaises(output_file)
       THEN \E existing_df \in {ReadCsv(output_file)} :
            LET k == Len(existing_df.rows)
            IN IF AlreadyComplete(k, total_teachers)
               THEN /\ df' = HeadRows(existing_df, total_teachers)
                    /\ start_idx' = 0
                    /\ pc' = "completing"
                    /\ h' = [h EXCEPT !.mode = "complete", !.k0 = k,
                                      !.trace = Append(@, "COMPLETING")]
               ELSE IF k > 0
               THEN /\ df' = ResumeFrame(existing_df, df)
                    /\ start_idx' = k
                    /\ pc' = "enter_loop"
                    /\ h' = [h EXCEPT !.mode = "resume", !.k0 = k]
               ELSE /\ pc' = "save_base"
                    /\ h' = [h EXCEPT !.mode = "fresh"]
                    /\ UNCHANGED <<df, start_idx>>
       ELSE /\ pc' = "save_base"
            /\ h' = [h EXCEPT !.mode = "fresh"]
            /\ UNCHANGED <<df, start_idx>>
    /\ UNCHANGED <<probe, input_df, output_file, error_log, response, batch_size,
                   cont, total_teachers, teacher_idx, runs>>

\* process_file lines 89-91
SaveBase ==
    /\ pc = "save_base"
    /\ output_file' = WriteCsv(df)
    /\ pc' = "enter_loop"
    /\ UNCHANGED <<probe, input_df, error_log, response, df, batch_size, cont,
                   total_teachers, start_idx, teacher_idx, runs, h>>

\* process_file line 95, process_teachers_individually lines 111-125
EnterLoop ==
    /\ pc = "enter_loop"
    /\ h' = [h EXCEPT !.trace = Append(@, "ENRICHING")]
    /\ IF LoopTotal(df) - start_idx <= 0
       THEN pc' = "report" /\ UNCHANGED teacher_idx
       ELSE pc' = "loop" /\ teacher_idx' = start_idx
    /\ UNCHANGED <<probe, input_df, output_file, error_log, response, df, batch_size,
                   cont, total_teachers, start_idx, runs>>

\* process_teachers_individually lines 126-185: one record, with the answer
\* the collaborator gives for it
ProcessTeacher(kind) ==
    /\ pc = "loop"
    /\ response' = kind
    /\ teacher_idx' = teacher_idx + 1
    /\ UNCHANGED <<probe, input_df, df, batch_size, cont, total_teachers, start_idx, runs>>
    /\ \E slice \in {Slice(df, teacher_idx)} :
       \E enriched \in {enrich_teacher_profile(slice, kind)} :
       \E failed \in {(\E i \in 1..Len(enriched) : enriched[i][2] = ListVal)} :
          /\ pc' = AfterRecord(teacher_idx, LoopTotal(df), failed)
          /\ IF failed
             THEN /\ h' = [h EXCEPT
                             !.calls = @ \cup {teacher_idx},
                             !.threw = IF kind = "throws"
                                       THEN @ \cup {teacher_idx} ELSE @,
                             !.raised = @ \cup {teacher_idx},
                             !.events = @ \o PassEvents(teacher_idx,
                                                        LoopTotal(df), failed)]
                  /\ error_log' = Append(error_log,
                        ErrorRow(slice, teacher_idx, "ValueError"))
                  /\ UNCHANGED output_file
             ELSE /\ \E saved \in {(CompletionTransform(Merge(slice, enriched)))} :
                        /\ h' = [h EXCEPT
                                   !.calls = @ \cup {teacher_idx},
                                   !.threw = IF kind = "throws"
                                             THEN @ \cup {teacher_idx} ELSE @,
                                   !.saved = @ \cup {teacher_idx},
                                   !.persisted =
                                       @ \cup {RowGet(slice.cols, slice.rows[1],
                                                      "source_id", "")},
                                   !.written = Append(@, saved.cols),
                                   !.events = @ \o PassEvents(teacher_idx,
                                                  LoopTotal(df), failed)]
                        /\ output_file' = SaveTeacher(output_file, saved,
                                                      teacher_idx, start_idx)
                  /\ UNCHANGED error_log

\* process_teachers_individually line 187, process_file line 98
Report ==
    /\ pc = "report"
    /\ pc' = "done"
    /\ h' = [h EXCEPT !.trace = Append(@, "DONE")]
    /\ UNCHANGED <<probe, input_df, output_file, error_log, response, df, batch_size,
                   cont, total_teachers, start_idx, teacher_idx, runs>>

\* process_file lines 78-79: apply_final_transformations, its save at line
\* 262, and the return.  The ValueError of line 221 leaves process_file.
ApplyFinal ==
    /\ pc = "completing"
    /\ IF FinalRaises(df)
       THEN pc' = "dead" /\ UNCHANGED <<output_file, h>>
       ELSE /\ \E final \in {apply_final_transformations(df)} :
                    output_file' = WriteCsv(final)
            /\ pc' = "done"
            /\ h' = [h EXCEPT !.trace = Append(@, "DONE")]
    /\ UNCHANGED <<probe, input_df, error_log, response, df, batch_size, cont,
                   total_teachers, start_idx, teacher_idx, runs>>

\* The process dies between two steps: the files stay, the memory is lost
Crash ==
    /\ pc \in ({"check_existing", "save_base", "enter_loop", "loop", "report", "completing"})
    /\ pc' = "dead"
    /\ response' = "none"
    /\ df' = EmptyFrame
    /\ start_idx' = 0
    /\ teacher_idx' = 0
    /\ h' = [NoHistory EXCEPT !.persisted = h.persisted]
    /\ UNCHANGED <<probe, input_df, output_file, error_log, batch_size, cont,
                   total_teachers, runs>>

Step ==
    \/ CheckExisting
    \/ SaveBase
    \/ EnterLoop
    \/ \E kind \in ({"answers", "malformed", "throws"}) : ProcessTeacher(kind)
    \/ Report
    \/ ApplyFinal

Start == \E bs \in (1..MaxN), c \in BOOLEAN : StartRun(bs, c)

Next == Start \/ Step \/ Crash

Spec == Init /\ [][Next]_vars

FairSpec == Init /\ [][(Start \/ Step)]_vars /\ WF_vars(Step)

----------------------------------------------------------------------------
(* The pure functions, each called once on an input of its domain *)

Call(op, input) == [op |-> op, input |-> input, out |-> << >>, done |-> FALSE]

Return(out) == [probe EXCEPT !.out = out, !.done = TRUE]

\* A record with every required field filled in, in the order of
\* required_fields
FilledRow ==
    << "F1 L1", "Teacher", "https://li/1", "t1@x.org", "Mathematics",
       "A dedicated educator", "British",
       "High School (Ages 14-18, Grades 9-12)", "British", "10",
       "Global Academy", "https://globalacademy.sch", "United Arab Emirates",
       "Dubai" >>

\* The values one field of the scored record is tried with
ProbeCells ==
    { "", " ", NaN, "Not specified", "unknown", "N/A", "none", "Education",
      "general", "Mathematics", "Grade 5",
      "High School (Ages 14-18, Grades 9-12)", "-1", "0", "25", "50", "51",
      "ten", "nan" }

FieldIndexes == 1..Len(required_fields)

\* The sets of fields that are left empty: the first k and the last k
EmptyRuns ==
    {1..k : k \in 0..Len(required_fields)}
        \cup {k..Len(required_fields) : k \in FieldIndexes}

\* The one-row table of a scorer input: the filled record with the fields
\* of empty blank and the field focus holding cell
ScoreFrame(input) ==
    [cols |-> required_fields,
     rows |-> << [i \in FieldIndexes |->
                    IF i = input.focus THEN input.cell
                    ELSE IF i \in input.empty THEN ""
                    ELSE FilledRow[i]] >>]

\* The same table with a score and a violation list stored earlier
WithStored(frame) ==
    SetColumn(SetColumn(frame, "profile_completion_percentage", "45"),
              "missing_fields", "[\"bio_missing\"]")

\* The school names the resolver is asked for
SchoolNames ==
    { << >>, <<" ">>, <<"XYZ", "British", "School">>, <<"xyz", "school">>, <<"xyz">>,
      <<"def", "abc", "xyz">>, <<"abc", "def", "school">>,
      <<"Raffles", "World", "Academy">>, <<"GEMS", "xyz", "school">>,
      <<"al", "American", "School">>, <<"the", "school">> }

\* The rows of the catalog file: school name and curriculum
CatalogRows ==
    { <<"XYZ", "School">>, <<"xyz">>, <<"abc", "def", "ghi">>,
      <<"Raffles", "World", "Academy">>, <<"GEMS", "xyz", "school">> }
        \X {"British", "American"}

\* What the collaborator does with one request: it answers well, answers
\* with an array for the bio, raises, answers with text that is no JSON, or
\* answers with a nationality that is no text
Answers == {"answers", "malformed", "throws", "unparsable", "unvalidatable"}

\* The values of the fields current_employer, company and organization;
\* NaN is a field the record does not have
EmployerCells ==
    { NaN, "", " ", "N/A", "none", "Not specified", "Beta School",
      "at Beta School", "Atlas School" }

\* pd.read_csv of an input file that lacks the columns of dropped
DropColumns(input, dropped) ==
    [cols |-> input.cols \ dropped,
     rows |-> [r \in 1..Len(input.rows) |->
                 [c \in input.cols \ dropped |-> input.rows[r][c]]]]

PureInit ==
    /\ Idle
    /\ \/ \E entries \in EntryLists : probe = Call("rank", entries)
       \/ \E input \in [empty : EmptyRuns, focus : FieldIndexes,
                         cell : ProbeCells] :
              probe = Call("score", input)
       \/ \E input \in [school : SchoolNames,
                         catalog : UNION {[1..n -> CatalogRows]
                                          : n \in 1..MaxCatalog}] :
              probe = Call("resolve", input)
       \/ \E input \in [record : 0..(MaxN - 1), kind : Answers] :
              probe = Call("enrich", input)
       \/ \E input \in [1..3 -> EmployerCells] :
              probe = Call("fallback", input)
       \/ \E dropped \in SUBSET input_df.cols :
              probe = Call("base", dropped)

\* Both implementations of the ranking, on the same entries
Rank ==
    /\ probe.op = "rank" /\ ~probe.done
    /\ probe' = Return(<<RankEmployment(probe.input),
                         BatchRankEmployment(probe.input)>>)
    /\ UNCHANGED <<input_df, output_file, error_log, pc, response, df,
                   batch_size, cont, total_teachers, start_idx, teacher_idx,
                   runs, h>>

\* t50.transform on a one-row table: once, once more on its own result,
\* on the table with stored results, and on its own result after
\* to_csv and pd.read_csv
Score ==
    /\ probe.op = "score" /\ ~probe.done
    /\ \E frame \in {ScoreFrame(probe.input)} :
       \E once \in {CompletionTransform(frame)} :
          probe' = Return([frame |-> frame,
                           codes |-> ScoreUpTo(frame.cols, frame.rows[1],
                                               Len(required_fields))[2],
                           once |-> once,
                           twice |-> CompletionTransform(once),
                           stored |-> CompletionTransform(WithStored(frame)),
                           reloaded |-> CompletionTransform(
                                            ReadCsv(WriteCsv(once)))])
    /\ UNCHANGED <<input_df, output_file, error_log, pc, response, df,
                   batch_size, cont, total_teachers, start_idx, teacher_idx,
                   runs, h>>

\* Both resolvers on one school name, each with the catalog as its loader
\* gives it
Resolve ==
    /\ probe.op = "resolve" /\ ~probe.done
    /\ \E schools_data \in {load_dubai_schools(probe.input.catalog,
                                                Len(probe.input.catalog))} :
       \E mapping \in {load_school_curriculum_mapping(probe.input.catalog,
                                                      Len(probe.input.catalog))} :
          probe' = Return(
              [schools_data |-> schools_data,
               mapping |-> mapping,
               from_school |-> get_curriculum_from_school(probe.input.school,
                                                          schools_data),
               for_school |-> get_curriculum_for_school(probe.input.school,
                                                        mapping)])
    /\ UNCHANGED <<input_df, output_file, error_log, pc, response, df,
                   batch_size, cont, total_teachers, start_idx, teacher_idx,
                   runs, h>>

\* enrich_teacher_profile on one base-transformed record, and the row
\* process_teachers_individually saves for it (lines 138-162)
Enrich ==
    /\ probe.op = "enrich" /\ ~probe.done
    /\ \E teacher_data \in {Slice(BaseTransformations(input_df, "T1"),
                                   probe.input.record)} :
       \E result \in {enrich_teacher_profile(teacher_data, probe.input.kind)} :
       \E failed \in {\E i \in 1..Len(result) : result[i][2] = ListVal} :
          probe' = Return(
              [teacher_data |-> teacher_data,
               result |-> result,
               failed |-> failed,
               saved |-> IF failed THEN EmptyFrame
                         ELSE CompletionTransform(Merge(teacher_data, result))])
    /\ UNCHANGED <<input_df, output_file, error_log, pc, response, df,
                   batch_size, cont, total_teachers, start_idx, teacher_idx,
                   runs, h>>

\* The current employer of a record without employment entries
Fallback ==
    /\ probe.op = "fallback" /\ ~probe.done
    /\ probe' = Return(FallbackSchool(probe.input))
    /\ UNCHANGED <<input_df, output_file, error_log, pc, response, df,
                   batch_size, cont, total_teachers, start_idx, teacher_idx,
                   runs, h>>

\* process_file lines 61-68 on an input file without some columns: the
\* base stages run outside any try statement
Base ==
    /\ probe.op = "base" /\ ~probe.done
    /\ \E input \in {DropColumns(input_df, probe.input)} :
          probe' = Return(
              [raised |-> NameRaises(input),
               frame |-> IF NameRaises(input) THEN EmptyFrame
                         ELSE BaseTransformations(input, "T1")])
    /\ UNCHANGED <<input_df, output_file, error_log, pc, response, df,
                   batch_size, cont, total_teachers, start_idx, teacher_idx,
                   runs, h>>

PureNext == Rank \/ Score \/ Resolve \/ Enrich \/ Fallback \/ Base

PureSpec == PureInit /\ [][PureNext]_vars

----------------------------------------------------------------------------
(* Observations the claims use *)

Lines == output_file.lines

LineSourceId(line) == RowGet(output_file.header, line, "source_id", "")

\* The run is a full fresh run: no Output Table when it started, the whole
\* source in its batch
FullFreshRun ==
    h.mode = "fresh" /\ ~h.existed /\ batch_size >= Len(input_df.rows)

\* The run found a readable Output Table of at least total_teachers rows
\* and was asked to continue from it
FoundComplete ==
    /\ pc \in {"completing", "save_base", "enter_loop", "loop", "report", "done"}
    /\ cont
    /\ h.existed
    /\ ~ReadRaises(h.file0)
    /\ Len(h.file0.lines) >= total_teachers

\* The Output Table the run found held only rows saved for finished
\* records
FinishedRowsBefore ==
    \A r \in 1..Len(h.file0.lines) :
        RowGet(h.file0.header, h.file0.lines[r], "source_id", "") \in h.persisted

----------------------------------------------------------------------------
(* Claims *)

\* C1: after a full fresh run over a source of N records, whatever records
\* failed, the Output Table holds exactly N data rows and row i is the row
\* of source record i.
C1_FreshRunRowPerRecord ==
    (pc = "done" /\ FullFreshRun) =>
        /\ Len(Lines) = Len(input_df.rows)
        /\ \A i \in 1..Len(Lines) : LineSourceId(Lines[i]) = input_df.rows[i].id

\* C2: a run resumed from an Output Table of k rows, 0 < k < N, enriches
\* and saves every record k..N-1 and ends with exactly N rows.
C2_ResumeCompletes ==
    (pc = "done" /\ h.mode = "resume" /\ FinishedRowsBefore) =>
        /\ Len(Lines) = total_teachers
        /\ h.saved = h.k0 .. (total_teachers - 1)

\* C3: a resumed run never changes rows 0..k-1 of the Output Table and
\* never calls the collaborator for records 0..k-1.
C3_ResumeKeepsRows ==
    h.mode = "resume" =>
        /\ output_file.exists
        /\ Len(Lines) >= h.k0
        /\ SubSeq(Lines, 1, h.k0) = SubSeq(h.file0.lines, 1, h.k0)
        /\ \A i \in h.calls : i >= h.k0

C3_Witness ==
    /\ pc = "done"
    /\ h.mode = "resume"
    /\ h.k0 > 0
    /\ h.k0 < total_teachers
    /\ "ENRICHING" \in Range(h.trace)

\* C4: at every point of a run, every data row of the Output Table is the
\* row of a record whose enrichment has finished and was saved.
C4_OnlyFinishedRows ==
    \A r \in 1..Len(Lines) : LineSourceId(Lines[r]) \in h.persisted

\* C5: when processing record i raises inside
\* process_teachers_individually, a row for record i is still written.
C5_FailedRecordHasRow ==
    (pc \in {"loop", "report", "done"} /\ FullFreshRun) =>
        \A i \in h.raised :
            \E r \in 1..Len(Lines) : LineSourceId(Lines[r]) = input_df.rows[i + 1].id

\* C6: if the collaborator throws for exactly one record of a run, the
\* Error Log gains exactly one entry in that run, with the record's
\* teacher_id, name and the error.
C6_ThrowIsLogged ==
    (pc = "done" /\ Cardinality(h.threw) = 1 /\ h.raised = {}) =>
        /\ Len(error_log) = h.log0 + 1
        /\ \A i \in h.threw :
              /\ error_log[Len(error_log)].teacher_id =
                    ErrorRow(Slice(df, i), i, "").teacher_id
              /\ error_log[Len(error_log)].name = TeacherName(Slice(df, i), i)
              /\ error_log[Len(error_log)].error # ""

\* The records the loop owes: i + 1 for every record i that has been saved
\* or has raised and is not the last one
Due == {i + 1 : i \in {j \in h.saved \cup h.raised : j < LoopTotal(df) - 1}}

\* C7: a failure while processing record i never stops the run: once
\* record i has been saved or has raised, record i+1 is processed, and the
\* loop ends after the last record.  Whenever the loop runs or owes a
\* record, the run reaches its end with every owed record enriched.
C7_NextRecordProcessed ==
    ((pc = "loop") \/ ~(Due \subseteq h.calls))
        ~> ((pc = "done") /\ (Due \subseteq h.calls))

C7_Witness ==
    /\ pc = "done"
    /\ \E i \in h.raised : i + 1 \in h.calls

C9_RerunIdentical ==
    (pc = "done" /\ FoundComplete /\ h.after_done /\ FinishedRowsBefore
        /\ h.last_total = total_teachers)
    => output_file = h.file0

\* C10: a fresh run that terminates normally has passed through
\* NOT_STARTED, BASE_APPLIED, ENRICHING, COMPLETING, DONE in this order: it
\* executes the completion pass after the last record and before it
\* reports success.
C10_StateOrder ==
    (pc = "done" /\ h.mode = "fresh")
        => h.trace = <<"NOT_STARTED", "BASE_APPLIED", "ENRICHING",
                       "COMPLETING", "DONE">>

\* C11: for every record the batch processor processes, the School/
\* Curriculum Resolver is attempted on the record's current school before
\* the inference for the curriculum and school fields, and the collaborator
\* supplies curriculum_experience only when the resolver returned
\* NOT_FOUND.
C11_ResolverBeforeInference ==
    /\ \A i \in h.calls : \E r \in h.resolved : r[1] = i
    /\ \A i \in (h.calls \ h.threw) : <<i, NOT_FOUND>> \in h.resolved

\* Text of a start date as the ranking compares it
DateKey(x) == SortKey(x)[2]

\* C12: both implementations of the employment ranking place every entry
\* flagged current before every entry that is not, order entries of equal
\* flag by start date descending with empty start dates last, and rank
\* [(non-current, 2015), (current, 2020), (non-current, 2022)] as
\* [2020 (current), 2022, 2015].
C12_CurrentFirst ==
    (probe.op = "rank" /\ probe.done) =>
        \A r \in ({probe.out[1], probe.out[2]}) :
            /\ \A i, j \in 1..Len(r) :
                  i < j =>
                    /\ ~(~r[i].current /\ r[j].current)
                    /\ (r[i].current = r[j].current
                          => DateKey(r[i]) >= DateKey(r[j]))
            /\ probe.input = << [current |-> FALSE, start_date |-> "2015"],
                                [current |-> TRUE, start_date |-> "2020"],
                                [current |-> FALSE, start_date |-> "2022"] >>
                  => r = << [current |-> TRUE, start_date |-> "2020"],
                            [current |-> FALSE, start_date |-> "2022"],
                            [current |-> FALSE, start_date |-> "2015"] >>

Scored == probe.op = "score" /\ probe.done

\* The score and the violation list of the scored record
ScoreCell(frame) ==
    RowGet(frame.cols, frame.rows[1], "profile_completion_percentage", "")

ProbeScore == NumberOf(ScoreCell(probe.out.once))

\* The required fields with at least one violation code
Flagged == {probe.out.codes[i][1] : i \in 1..Len(probe.out.codes)}

CodesOf(field) ==
    {probe.out.codes[i][2] :
        i \in {j \in 1..Len(probe.out.codes) : probe.out.codes[j][1] = field}}

OnlyMissing == \A i \in 1..Len(probe.out.codes) : probe.out.codes[i][2] = "missing"

\* C13: the completeness score is max(0, 50 - 5 * F), F the number of
\* required fields with at least one violation code; it is an integer in
\* [0, 50]; a record missing exactly 3 fields and nothing else scores 35,
\* a record missing all 14 fields scores 0.
C13_ScoreFormula ==
    Scored =>
        /\ IsNumeric(ScoreCell(probe.out.once))
        /\ ProbeScore = (IF FullScore - FieldCost * Cardinality(Flagged) > 0
                         THEN FullScore - FieldCost * Cardinality(Flagged)
                         ELSE 0)
        /\ ProbeScore \in 0..FullScore
        /\ (OnlyMissing /\ Cardinality(Flagged) = 3) => ProbeScore = 35
        /\ (OnlyMissing /\ Cardinality(Flagged) = Len(required_fields))
              => ProbeScore = 0

C13_Witness ==
    /\ Scored
    /\ OnlyMissing
    /\ Cardinality(Flagged) = Len(required_fields)
    /\ ScoreCell(probe.out.once) = "0"

\* The value the scored record holds for the field at place i
ProbeCell(i) == probe.out.frame.rows[1][i]

\* A value that is empty (null or ""), whitespace-only or a placeholder
\* token in any case
Blank(cell) ==
    cell = NaN \/ Strip(cell) = "" \/ Lower(Strip(cell)) \in MissingTokens

\* C14: for each required field the scorer emits <field>_missing exactly
\* when the field's value is empty, whitespace-only or a placeholder token
\* in any case, and a field reported missing gets no field-specific code.
C14_MissingExactly ==
    Scored =>
        \A i \in FieldIndexes :
            /\ ("missing" \in CodesOf(required_fields[i])) <=> Blank(ProbeCell(i))
            /\ ("missing" \in CodesOf(required_fields[i]))
                  => CodesOf(required_fields[i]) = {"missing"}

YearsCell == ProbeCell(IndexOf(required_fields, "teaching_experience_years"))

YearsCodes == CodesOf("teaching_experience_years")

\* C15: a teaching_experience_years value that is not missing yields no
\* violation when it is a number in [0, 50], 0 and 50 included,
\* _out_of_range when it is a number outside, and _invalid when it is not
\* a number; exactly one of the three happens.
C15_YearsRange ==
    (Scored /\ ~Blank(YearsCell)) =>
        /\ (IsNumeric(YearsCell) /\ NumberOf(YearsCell) \in MinYears..MaxYears)
              => YearsCodes = {}
        /\ (IsNumeric(YearsCell) /\ NumberOf(YearsCell) \notin MinYears..MaxYears)
              => YearsCodes = {"out_of_range"}
        /\ ~IsNumeric(YearsCell) => YearsCodes = {"invalid"}

\* The place of the field of the i-th violation code in required_fields
CodePlace(i) == IndexOf(required_fields, probe.out.codes[i][1])

\* C16: the scorer is deterministic and idempotent: applied twice to an
\* unchanged table it gives the score and the violation list it gives
\* when applied once, the list in the order of the 14 required fields, and
\* a score or a list stored earlier does not change the result.
C16_Idempotent ==
    Scored =>
        /\ probe.out.twice = probe.out.once
        /\ probe.out.stored = probe.out.once
        /\ RowGet(probe.out.once.cols, probe.out.once.rows[1],
                  "missing_fields", "") = MissingFieldsOf(probe.out.codes)
        /\ \A i, j \in 1..Len(probe.out.codes) :
              i < j => CodePlace(i) < CodePlace(j)

C16_Witness ==
    /\ Scored
    /\ Len(probe.out.codes) >= 2
    /\ ProbeScore < FullScore - FieldCost
    /\ probe.out.twice = probe.out.once

Resolved == probe.op = "resolve" /\ probe.done

\* The catalog entries of school_utils whose cleaned name contains the
\* cleaned input or is contained in it
ContainedFrom ==
    {i \in 1..Len(probe.out.schools_data) :
        LET clean_db_name == clean_school_name(probe.out.schools_data[i][1])
            clean_text == clean_school_name(probe.input.school)
        IN /\ clean_db_name # << >> /\ clean_text # << >>
           /\ IsInfix(clean_db_name, clean_text)
                 \/ IsInfix(clean_text, clean_db_name)}

\* The same for the keys of school_curriculum_mapping
ContainedFor ==
    IF probe.input.school = << >> THEN {}
    ELSE PartialMatches(LowerName(probe.input.school), probe.out.mapping)

\* C17: when the normalized input contains a normalized catalog entry or
\* is contained in one, the resolver returns the curriculum of such an
\* entry, whatever curriculum keywords the input has; with the catalog
\* 'xyz school' -> British, 'XYZ British School' resolves to British.
C17_ContainmentDecides ==
    Resolved =>
        /\ ContainedFrom # {} =>
              probe.out.from_school \in
                  {probe.out.schools_data[i][2] : i \in ContainedFrom}
        /\ ContainedFor # {} =>
              probe.out.for_school \in
                  {probe.out.mapping[i][2] : i \in ContainedFor}
        /\ (probe.input.school = <<"XYZ", "British", "School">>
              /\ probe.input.catalog = << <<<<"XYZ", "School">>, "British">> >>)
              => (probe.out.from_school = "British"
                    /\ probe.out.for_school = "British")

\* C18: when the school name contains the brand gems, sabis or raffles,
\* the resolver returns the curriculum of the brand rule even if the
\* catalog gives another one.
C18_BrandOverrides ==
    (Resolved /\ \E w \in {"gems", "sabis", "raffles"} :
                     HasWord(LowerName(probe.input.school), w))
        => probe.out.for_school =
               IF HasWord(LowerName(probe.input.school), "gems")
               THEN "British" ELSE "IB"

\* The teacher_id cells of the records of the run
TeacherIds == [r \in 1..Len(df.rows) |-> RowGet(df.cols, df.rows[r], "teacher_id", NaN)]

\* C19: every record has a teacher_id that is assigned and differs from
\* the teacher_id of every other record, so an Error Log entry identifies
\* exactly one record.
C19_TeacherIdUnique ==
    (pc \in {"check_existing", "save_base", "enter_loop", "loop", "report"}) =>
        /\ \A r \in 1..Len(TeacherIds) : TeacherIds[r] \notin {"", NaN}
        /\ \A r, q \in 1..Len(TeacherIds) :
              r # q => TeacherIds[r] # TeacherIds[q]
        /\ \A e \in 1..Len(error_log) :
              Cardinality({r \in 1..Len(TeacherIds) :
                              TeacherIds[r] = error_log[e].teacher_id}) = 1

\* C20: every data row written to the Output Table has the columns of the
\* header row of the file, in the same order, whatever mix of answered and
\* defaulted records the run holds: no column of a row is omitted.
C20_RowsMatchHeader ==
    /\ \A i \in 1..Len(h.written) : h.written[i] = output_file.header
    /\ \A r \in 1..Len(Lines) : Len(Lines[r]) = Len(output_file.header)

\* C21: the Output Table holds one header row, the header of the enriched
\* column set written at the first record write of the run, whether the
\* first record of the run succeeded or failed; no later record write
\* replaces it.
C21_HeaderOnce ==
    (h.calls # {} /\ h.written # << >>) =>
        /\ output_file.exists
        /\ output_file.header = h.written[1]

\* enrich_teacher_profile has returned for a request
Enriched == probe.op = "enrich" /\ probe.done

\* C22: when the collaborator call, the parsing of its response or the
\* validation of the parsed result raises, enrich_teacher_profile returns
\* the complete default mapping of eleven attributes and the error does not
\* reach the caller.
C22_FailsClosed ==
    (Enriched /\ probe.input.kind \in {"throws", "unparsable", "unvalidatable"})
        => /\ Len(probe.out.result) = 11
           /\ Range(probe.out.result) =
                 { <<"subject", "Unknown">>,
                   <<"bio", "Professional educator with teaching experience.">>,
                   <<"nationality", "Unknown">>,
                   <<"preferred_grade_level", "Not specified">>,
                   <<"is_currently_teacher", "False">>,
                   <<"curriculum_experience", "Not specified">>,
                   <<"teaching_experience_years", "0">>,
                   <<"current_school", "">>,
                   <<"school_website", "">>,
                   <<"current_location_country", "">>,
                   <<"current_location_city", "">> }

\* The validation has raised on a nationality that is no text and the
\* default mapping came back
C22_Witness ==
    /\ Enriched
    /\ probe.input.kind = "unvalidatable"
    /\ DictGet(probe.out.result, "nationality", "") = "Unknown"

\* C23: a pacing delay is executed between any two consecutive inference
\* calls of a run, after a saved record and after a failed one alike and
\* not after the last record, and the calls follow the order of the
\* records.
C23_PacedCalls ==
    /\ \A i, j \in 1..Len(h.events) :
          (i < j /\ h.events[i][1] = "call" /\ h.events[j][1] = "call")
              => /\ h.events[i][2] < h.events[j][2]
                 /\ \E k \in (i + 1)..(j - 1) : h.events[k][1] = "sleep"
    /\ (pc \in {"report", "done"} /\ h.events # << >>)
          => h.events[Len(h.events)][1] = "call"

\* A record has failed and the loop has gone on to the last record
C23_Witness ==
    /\ pc = "report"
    /\ 0 \in h.raised
    /\ 1 \in h.calls

\* C24: after a successful inference the columns subject, nationality,
\* preferred_grade_level, curriculum_experience and is_currently_teacher of
\* the saved row hold the values the collaborator returned, and the row is
\* not reported missing for any of them.
C24_AnswerInScoredColumns ==
    (Enriched /\ probe.input.kind = "answers") =>
        LET raw == RawResult(probe.out.teacher_data, probe.input.kind)
            saved == probe.out.saved
            codes == ScoreUpTo(saved.cols, saved.rows[1],
                               Len(required_fields))[2]
        IN \A i \in 1..Len(raw) :
              (raw[i][1] \in Range(structured_fields) /\ raw[i][3] # NaN) =>
                  /\ RowGet(saved.cols, saved.rows[1], raw[i][1], NaN)
                        = raw[i][3]
                  /\ <<raw[i][1], "missing">> \notin Range(codes)

\* C25: the record passed to the inference collaborator for record i holds
\* every column of source row i together with every column of the
\* base-transformed row i, with the base-transformed value where both rows
\* define the column.
C25_MergedInputView ==
    Enriched =>
        LET passed == probe.out.teacher_data
            base == Slice(BaseTransformations(input_df, "T1"),
                          probe.input.record)
            source == input_df.rows[probe.input.record + 1]
        IN /\ \A c \in 1..Len(base.cols) :
                 RowGet(passed.cols, passed.rows[1], base.cols[c], NaN)
                     = base.rows[1][c]
           /\ \A col \in input_df.cols \ Range(base.cols) :
                 /\ col \in Range(passed.cols)
                 /\ RowGet(passed.cols, passed.rows[1], col, NaN) = source[col]

\* C26: without an employment entry the current employer is the first of
\* current_employer, company, organization that is non-empty and no
\* placeholder, with its leading "at" or "from" removed; when there is
\* none, no current employer is reported, never a placeholder token.
C26_FallbackEmployer ==
    (probe.op = "fallback" /\ probe.done) =>
        LET Usable(v) == /\ v # NaN
                         /\ Strip(v) # ""
                         /\ Lower(Strip(v)) \notin
                               {"none", "n/a", "not specified"}
            usable == {k \in 1..3 : Usable(probe.input[k])}
        IN IF usable = {} THEN probe.out = ""
           ELSE probe.out =
                  CleanEmployer(Strip(probe.input[CHOOSE k \in usable :
                                                     \A m \in usable : k <= m]))

\* C27: if a catalog entry matches the normalized input exactly, the
\* resolver returns the curriculum of such an entry, even when an entry
\* that comes earlier in the catalog matches the input by containment or
\* by two shared words.
C27_ExactMatchFirst ==
    Resolved =>
        LET clean_text == clean_school_name(probe.input.school)
            exact_from == {i \in 1..Len(probe.out.schools_data) :
                             /\ clean_text # << >>
                             /\ clean_school_name(probe.out.schools_data[i][1])
                                   = clean_text}
            exact_for == {i \in 1..Len(probe.out.mapping) :
                            /\ probe.input.school # << >>
                            /\ probe.out.mapping[i][1]
                                  = LowerName(probe.input.school)}
        IN /\ exact_from # {} =>
                 probe.out.from_school \in
                     {probe.out.schools_data[i][2] : i \in exact_from}
           /\ exact_for # {} =>
                 probe.out.for_school \in
                     {probe.out.mapping[i][2] : i \in exact_for}

\* C30: for a school name that is empty, white space only or nothing after
\* normalization the resolver returns NOT_FOUND, whatever the catalog
\* holds.
C30_EmptyNameNotFound ==
    Resolved =>
        /\ clean_school_name(probe.input.school) = << >>
              => probe.out.from_school = NOT_FOUND
        /\ LowerName(probe.input.school) = << >>
              => probe.out.for_school = NOT_FOUND

\* C28: when a source column a base stage needs (first_name, last_name,
\* headline, linkedin_url, email, id) is absent from the source table, the
\* stage writes an empty value into its output column for every row, the
\* row count is kept and the run does not fail.
C28_MissingSourceColumn ==
    (probe.op = "base" /\ probe.done) =>
        LET out == probe.out.frame
            Target(col) ==
                CASE col \in {"first_name", "last_name"} -> "name"
                  [] col = "headline" -> "headline"
                  [] col = "linkedin_url" -> "linkedin_profile_url"
                  [] col = "email" -> "Email"
                  [] col = "id" -> "source_id"
        IN /\ ~probe.out.raised
           /\ Len(out.rows) = Len(input_df.rows)
           /\ \A col \in probe.input \ {"first_name", "last_name"} :
                 \A r \in 1..Len(out.rows) :
                     RowGet(out.cols, out.rows[r], Target(col), "absent")
                         \in {"", NaN}
           /\ ({"first_name", "last_name"} \subseteq probe.input) =>
                 \A r \in 1..Len(out.rows) :
                     RowGet(out.cols, out.rows[r], "name", "absent") = ""

\* C29: the score and the violation list of a row are the same whether the
\* row is scored in memory or scored after it was written to the Output
\* Table and read back; a field that was empty before the write is still
\* reported missing after the reload.
C29_ScoreSurvivesReload ==
    Scored =>
        /\ ScoreCell(probe.out.reloaded) = ScoreCell(probe.out.once)
        /\ RowGet(probe.out.reloaded.cols, probe.out.reloaded.rows[1],
                  "missing_fields", "")
             = RowGet(probe.out.once.cols, probe.out.once.rows[1],
                      "missing_fields", "")

====
